---- MODULE Spec2Model ----
(***************************************************************************)
(* Model of two units of the repository:                                   *)
(*   - the AnomaliesMap component (src/unnamed/part_000): getAnomalyRows,  *)
(*     getChoroplethAnomaliesLayer, getEMSTermSuggestions, layerList;      *)
(*   - setupSavedObjects                                                   *)
(*     (src/x-pack/plugins/actions/server/saved_objects/index.ts).         *)
(*                                                                         *)
(* JavaScript values that the code distinguishes are tagged records:       *)
(* Undefined, Null and Str(s).  Numbers with a fractional part (severity)  *)
(* are fixed-point integers counting tenths, so 427 stands for 42.7; a     *)
(* floored number is a plain integer.                                      *)
(***************************************************************************)
EXTENDS Integers, Sequences, FiniteSets, TLC

VARIABLES
    anomalies,        \* prop `anomalies` of the current render
    jobIds,           \* prop `jobIds` of the current render
    mapsPlugin,       \* services.maps of useMlKibana(): TRUE when the plugin is there
    EMSSuggestions,   \* the useState cell: Undefined or [type |-> "array", items |-> seq]
    callback,         \* the closure memoised by useCallback/useEffect: props it captured
    runs,             \* the getEMSTermSuggestions runs in flight
    layerList,        \* the useMemo cell handed to MlEmbeddedMapComponent
    result,           \* last direct call of a pure function: its arguments and value
    savedObjects,     \* calls received by savedObjects.registerType, in order
    encryptedSavedObjects, \* calls received by encryptedSavedObjects.registerType
    pc                \* position of setupSavedObjects

vars == <<anomalies, jobIds, mapsPlugin, EMSSuggestions, callback, runs, layerList,
          result, savedObjects, encryptedSavedObjects, pc>>

mapVars == <<anomalies, jobIds, mapsPlugin, EMSSuggestions, callback, runs, layerList>>
setupVars == <<savedObjects, encryptedSavedObjects, pc>>

----------------------------------------------------------------------------
(* Bounds *)

MaxLen == 3          \* longest anomaly list given to getAnomalyRows
MaxSampleLen == 5    \* longest anomaly list given to the sampling loop
MaxJobs == 2         \* longest jobIds prop
MaxRuns == 2         \* most suggestion runs in flight at once

----------------------------------------------------------------------------
(* JavaScript values *)

Undefined == [type |-> "undefined", val |-> ""]
Null == [type |-> "null", val |-> ""]
Str(s) == [type |-> "string", val |-> s]

\* ToPropertyKey: the string a value becomes when used as anomalyRows[location]
ToPropertyKey(v) == IF v.type = "string" THEN v.val ELSE v.type

\* Math.floor of a fixed-point number of tenths
Floor(x) == x \div 10

BoundedSeq(S, n) == UNION {[1..k -> S] : k \in 0..n}

Range(s) == {s[i] : i \in 1..Len(s)}

----------------------------------------------------------------------------
(* getAnomalyRows *)

\* Properties every object literal {} inherits from Object.prototype; reading
\* anomalyRows[key] for one of them yields a function, never undefined.
InheritedKeys == {"constructor", "toString", "valueOf", "hasOwnProperty"}

\* anomalyRows is the sequence of its own properties in insertion order, each
\* [key, value]; Object.values keeps that order for keys that are not integers.
OwnIndex(anomalyRows, key) ==
    {k \in 1..Len(anomalyRows) : anomalyRows[k].key = key}

IsUndefinedProperty(anomalyRows, key) ==
    OwnIndex(anomalyRows, key) = {} /\ key \notin InheritedKeys

NewRow(anomaly) ==
    [count |-> 1,
     entityValue |-> anomaly.entityValue,
     max_severity |-> Floor(anomaly.severity)]

\* `anomaly.severity > max_severity`: a number of tenths against a floored integer
SeverityExceeds(severity, max_severity) == severity > max_severity * 10

UpdateRow(row, anomaly) ==
    [row EXCEPT !.count = @ + 1,
                !.max_severity = IF SeverityExceeds(anomaly.severity, @)
                                 THEN Floor(anomaly.severity) ELSE @]

RECURSIVE AnomalyRowsLoop(_, _, _, _)
AnomalyRowsLoop(list, jobId, i, anomalyRows) ==
    IF i > Len(list) THEN anomalyRows
    ELSE LET anomaly == list[i]
             location == ToPropertyKey(anomaly.entityValue)
         IN IF anomaly.jobId # jobId
            THEN AnomalyRowsLoop(list, jobId, i + 1, anomalyRows)
            ELSE IF IsUndefinedProperty(anomalyRows, location)
            THEN AnomalyRowsLoop(list, jobId, i + 1,
                     Append(anomalyRows, [key |-> location, value |-> NewRow(anomaly)]))
            ELSE IF OwnIndex(anomalyRows, location) # {}
            THEN LET k == CHOOSE k \in OwnIndex(anomalyRows, location) : TRUE
                 IN AnomalyRowsLoop(list, jobId, i + 1,
                        [anomalyRows EXCEPT ![k].value = UpdateRow(@, anomaly)])
            \* an inherited property: count and max_severity are written on the
            \* inherited function object, anomalyRows gets no own property
            ELSE AnomalyRowsLoop(list, jobId, i + 1, anomalyRows)

\* Object.values(anomalyRows)
ObjectValues(anomalyRows) == [k \in 1..Len(anomalyRows) |-> anomalyRows[k].value]

getAnomalyRows(list, jobId) == ObjectValues(AnomalyRowsLoop(list, jobId, 1, <<>>))

----------------------------------------------------------------------------
(* getChoroplethAnomaliesLayer *)

\* i18n.translate with defaultMessage 'Anomalies count: {jobId}'
LayerLabel(jobId) == <<"Anomalies count: ", jobId>>

TableColumns ==
    <<[name |-> "entityValue", type |-> "string"],
      [name |-> "count", type |-> "number"],
      [name |-> "max_severity", type |-> "number"]>>

StyleDescriptor ==
    [type |-> "VECTOR",
     properties |->
        [icon |-> [type |-> "STATIC", options |-> [value |-> "marker"]],
         fillColor |->
            [type |-> "DYNAMIC",
             options |-> [color |-> "Blue to Red",
                          colorCategory |-> "palette_0",
                          fieldMetaOptions |-> [isEnabled |-> TRUE, sigma |-> 3],
                          type |-> "ORDINAL",
                          field |-> [name |-> "count", origin |-> "join"],
                          useCustomColorRamp |-> FALSE]],
         lineColor |->
            [type |-> "DYNAMIC",
             options |-> [fieldMetaOptions |-> [isEnabled |-> TRUE]]],
         lineWidth |-> [type |-> "STATIC", options |-> [size |-> 1]]],
     isTimeAware |-> TRUE]

\* faulty variant: the rows are those of the job of the first record, not of config.jobId
getChoroplethAnomaliesLayer_FirstJob(list, config, visible, id) ==
    [id |-> id,
     label |-> LayerLabel(config.jobId),
     joins |-> <<[leftField |-> config.field,
                  right |-> [id |-> "anomaly_count",
                             type |-> "TABLE_SOURCE",
                             rows |-> getAnomalyRows(list,
                                         IF list = <<>> THEN config.jobId
                                         ELSE list[1].jobId),
                             columns |-> TableColumns,
                             term |-> "entityValue"]]>>,
     sourceDescriptor |-> [type |-> "EMS_FILE", id |-> config.layerId],
     style |-> StyleDescriptor,
     visible |-> visible,
     type |-> "VECTOR"]

\* `id` is the value htmlIdGenerator()() returned for this call
getChoroplethAnomaliesLayer(list, config, visible, id) ==
    [id |-> id,
     label |-> LayerLabel(config.jobId),
     joins |-> <<[leftField |-> config.field,
                  right |-> [id |-> "anomaly_count",
                             type |-> "TABLE_SOURCE",
                             rows |-> getAnomalyRows(list, config.jobId),
                             columns |-> TableColumns,
                             term |-> "entityValue"]]>>,
     sourceDescriptor |-> [type |-> "EMS_FILE", id |-> config.layerId],
     style |-> StyleDescriptor,
     visible |-> visible,
     type |-> "VECTOR"]

----------------------------------------------------------------------------
(* The sampling loop of getEMSTermSuggestions *)

MAX_ENTITY_VALUES == 3

COMMON_EMS_LAYER_IDS ==
    <<"world_countries", "administrative_regions_lvl2", "usa_zip_codes", "usa_states">>

\* faulty variant: the entityName of the record is not looked at
Qualifies_IgnoringName(anomaly, jobId) ==
    /\ jobId = anomaly.jobId
    /\ anomaly.entityValue # Str("")
    /\ anomaly.entityValue # Undefined

\* the condition of the first `if` of the loop body
Qualifies(anomaly, jobId) ==
    /\ jobId = anomaly.jobId
    /\ anomaly.entityValue # Str("")
    /\ anomaly.entityValue # Undefined
    /\ anomaly.entityName # Str("")
    /\ anomaly.entityName # Undefined

\* Set.prototype.add: a Set keeps its members in insertion order
SetAdd(members, v) == IF v \in Range(members) THEN members ELSE Append(members, v)

\* !entityName
IsFalsy(v) == v = Undefined \/ v = Null \/ v = Str("")

\* The loop, from the iteration that reads list[i] on.  `scanned` is the number
\* of iterations that ran when the loop is left.
RECURSIVE SampleLoop(_, _, _, _, _)
SampleLoop(list, jobId, i, entityValues, entityName) ==
    IF i > Len(list)
    THEN [entityValues |-> entityValues, entityName |-> entityName, scanned |-> Len(list)]
    ELSE LET hit == Qualifies(list[i], jobId)
             values == IF hit THEN SetAdd(entityValues, list[i].entityValue)
                       ELSE entityValues
             name == IF hit /\ IsFalsy(entityName) THEN list[i].entityName
                     ELSE entityName
         IN IF Len(values) = MAX_ENTITY_VALUES
            THEN [entityValues |-> values, entityName |-> name, scanned |-> i]
            ELSE SampleLoop(list, jobId, i + 1, values, name)

\* the argument of mapsPlugin.suggestEMSTermJoinConfig for one jobId
SuggestRequest(list, jobId) ==
    LET s == SampleLoop(list, jobId, 1, <<>>, Undefined)
    IN [emsLayerIds |-> COMMON_EMS_LAYER_IDS,
        sampleValues |-> s.entityValues,
        sampleValuesColumnName |-> IF IsFalsy(s.entityName) THEN Str("") ELSE s.entityName]

----------------------------------------------------------------------------
(* Inputs *)

JobIds == {"j1", "j2"}

\* join configurations the suggestion service can answer with (EMSTermJoinConfig)
EMSTermJoinConfigs ==
    {[layerId |-> "world_countries", field |-> "iso2"],
     [layerId |-> "usa_states", field |-> "name"]}

\* { jobId, ...suggestion }
WithJobId(jobId, suggestion) ==
    [jobId |-> jobId, layerId |-> suggestion.layerId, field |-> suggestion.field]

MLEMSTermJoinConfigs == {WithJobId(j, c) : j \in JobIds, c \in EMSTermJoinConfigs}

\* values htmlIdGenerator()() can return
GeneratedIds == 1..MaxJobs

Anomaly(jobId, entityName, entityValue, severity) ==
    [jobId |-> jobId, entityName |-> entityName, entityValue |-> entityValue,
     severity |-> severity]

\* records for the aggregation: entity values that are absent, that spell
\* "undefined", that name an inherited property, and ordinary ones;
\* severities 10.1, 42.3 and 42.7
RowRecords ==
    {Anomaly("j1", Str("country"), Undefined, 101),
     Anomaly("j1", Str("country"), Str("undefined"), 427),
     Anomaly("j1", Str("country"), Str("constructor"), 101),
     Anomaly("j1", Str("country"), Str("US"), 101),
     Anomaly("j1", Str("country"), Str("US"), 423),
     Anomaly("j1", Str("country"), Str("US"), 427),
     Anomaly("j1", Str("country"), Str("FR"), 423),
     Anomaly("j2", Str("country"), Str("US"), 427),
     Anomaly("j2", Str("country"), Str("DE"), 101)}

\* records for the sampling loop: five usable values of job j1, one of job j2,
\* and values or names that are empty or absent
SampleRecords ==
    {Anomaly("j1", Str("country"), Str("US"), 101),
     Anomaly("j1", Str("country"), Str("FR"), 101),
     Anomaly("j1", Str("region"), Str("DE"), 101),
     Anomaly("j1", Str("country"), Str("GB"), 101),
     Anomaly("j2", Str("state"), Str("ES"), 101),
     Anomaly("j1", Str("country"), Str(""), 101),
     Anomaly("j1", Str("country"), Undefined, 101),
     Anomaly("j1", Str(""), Str("IT"), 101),
     Anomaly("j1", Undefined, Str("CA"), 101)}

NoResult == [op |-> "none"]

----------------------------------------------------------------------------
(* Direct calls of the pure functions *)

CallGetAnomalyRows ==
    /\ \E jobId \in JobIds :
          result' = [op |-> "getAnomalyRows", jobId |-> jobId,
                     out |-> getAnomalyRows(anomalies, jobId)]
    /\ UNCHANGED <<mapVars, setupVars>>

CallGetChoroplethAnomaliesLayer ==
    /\ \E config \in MLEMSTermJoinConfigs, visible \in BOOLEAN, id \in GeneratedIds :
          result' = [op |-> "getChoroplethAnomaliesLayer", config |-> config,
                     visible |-> visible,
                     out |-> getChoroplethAnomaliesLayer(anomalies, config, visible, id)]
    /\ UNCHANGED <<mapVars, setupVars>>

\* the sampling loop of one jobs.map callback, up to the request it sends
CallSample ==
    /\ \E jobId \in JobIds :
          result' = [op |-> "sample", jobId |-> jobId,
                     loop |-> SampleLoop(anomalies, jobId, 1, <<>>, Undefined),
                     out |-> SuggestRequest(anomalies, jobId)]
    /\ UNCHANGED <<mapVars, setupVars>>

InitIdle ==
    /\ jobIds = <<>>
    /\ mapsPlugin = TRUE
    /\ EMSSuggestions = Undefined
    /\ callback = [mounted |-> FALSE, anomalies |-> <<>>, jobIds |-> <<>>]
    /\ runs = <<>>
    /\ layerList = <<>>
    /\ result = NoResult
    /\ savedObjects = <<>>
    /\ encryptedSavedObjects = <<>>
    /\ pc = "start"

InitRows == anomalies \in BoundedSeq(RowRecords, MaxLen) /\ InitIdle

NextRows == CallGetAnomalyRows \/ CallGetChoroplethAnomaliesLayer

SpecRows == InitRows /\ [][NextRows]_vars

InitSample == anomalies \in BoundedSeq(SampleRecords, MaxSampleLen) /\ InitIdle

NextSample == CallSample

SpecSample == InitSample /\ [][NextSample]_vars

----------------------------------------------------------------------------
(* The AnomaliesMap component *)

\* anomaly lists the parent can pass as the `anomalies` prop
MapAnomalies ==
    {<<>>,
     <<Anomaly("j1", Str("country"), Str("US"), 427),
       Anomaly("j2", Str("state"), Str("Ohio"), 101),
       Anomaly("j1", Str("country"), Str("US"), 423)>>,
     <<Anomaly("j2", Str("state"), Str("Utah"), 423)>>}

Pending == [type |-> "pending", val |-> ""]

\* React compares a hook's dependency arrays element by element, over the
\* indices both arrays have
HookInputsEqual(nextDeps, prevDeps) ==
    \A i \in 1..Len(nextDeps) : i <= Len(prevDeps) => nextDeps[i] = prevDeps[i]

\* what one callback of jobIds.map returns once its reply is in
SuggestionOf(jobId, reply) == IF reply # Null THEN WithJobId(jobId, reply) ELSE reply

\* faulty variant: the null suggestions are kept
FilterNotNull_KeepingAll(suggestions) == suggestions

\* suggestions.filter((s) => s !== null)
RECURSIVE FilterNotNull(_)
FilterNotNull(suggestions) ==
    IF suggestions = <<>> THEN <<>>
    ELSE IF Head(suggestions) # Null
         THEN <<Head(suggestions)>> \o FilterNotNull(Tail(suggestions))
         ELSE FilterNotNull(Tail(suggestions))

\* the value of Promise.all, in the order of jobIds whatever the arrival order
ResolvedSuggestions(run) ==
    [i \in 1..Len(run.jobIds) |-> SuggestionOf(run.jobIds[i], run.replies[i])]

Array(items) == [type |-> "array", items |-> items]

\* faulty variant: every layer is made visible
IsFirstLayer_Always(count) == TRUE

\* const visible = count === 0
IsFirstLayer(count) == count = 0

\* the reduce of layerList; ids[k] is the id generated for the k-th layer
RECURSIVE ReduceLayers(_, _, _, _)
ReduceLayers(suggestions, list, ids, count) ==
    IF suggestions = <<>> THEN <<>>
    ELSE IF Head(suggestions) # Null
         THEN <<getChoroplethAnomaliesLayer(list, Head(suggestions),
                                            IsFirstLayer(count), ids[count + 1])>>
              \o ReduceLayers(Tail(suggestions), list, ids, count + 1)
         ELSE ReduceLayers(Tail(suggestions), list, ids, count)

LayerListOf(suggestions, list, ids) ==
    IF suggestions.type = "array" /\ Len(suggestions.items) > 0
    THEN ReduceLayers(suggestions.items, list, ids, 0)
    ELSE <<>>

\* ids htmlIdGenerator can hand to n layers: pairwise different
IdSeqs(n) == {ids \in [1..n -> GeneratedIds] :
                 \A a, b \in 1..n : a # b => ids[a] # ids[b]}

LayerCount(suggestions) ==
    IF suggestions.type = "array" THEN Len(FilterNotNull(suggestions.items)) ELSE 0

\* useMemo(..., [EMSSuggestions, anomalies]) during the render that follows
MemoLayerList(suggestionsSet) ==
    IF suggestionsSet \/ anomalies' # anomalies
    THEN \E ids \in IdSeqs(LayerCount(EMSSuggestions')) :
            layerList' = LayerListOf(EMSSuggestions', anomalies', ids)
    ELSE UNCHANGED layerList

NewRun(list, ids) ==
    [jobIds |-> ids,
     requests |-> [i \in 1..Len(ids) |-> SuggestRequest(list, ids[i])],
     replies |-> [i \in 1..Len(ids) |-> Pending],
     status |-> IF ids = <<>> THEN "done" ELSE "pending"]

\* getEMSTermSuggestions as memoised with the props `list` and `ids`, up to
\* its first suspension: nothing without the maps plugin; otherwise one request
\* per jobId, and with no jobId at all Promise.all([]) resolves at once
getEMSTermSuggestions(list, ids) ==
    IF ~mapsPlugin
    THEN /\ UNCHANGED <<runs, EMSSuggestions>>
         /\ MemoLayerList(FALSE)
    ELSE /\ runs' = Append(runs, NewRun(list, ids))
         /\ IF ids = <<>>
            THEN EMSSuggestions' = Array(FilterNotNull(<<>>)) /\ MemoLayerList(TRUE)
            ELSE UNCHANGED EMSSuggestions /\ MemoLayerList(FALSE)

\* One render with the props newAnomalies and newJobIds, and the effects after
\* it.  depsChanged: the [...jobIds] dependencies differ from the memoised ones.
Rendered(newAnomalies, newJobIds, depsChanged) ==
    /\ anomalies' = newAnomalies
    /\ jobIds' = newJobIds
    /\ callback' = IF depsChanged
                   THEN [mounted |-> TRUE, anomalies |-> newAnomalies, jobIds |-> newJobIds]
                   ELSE callback
    /\ IF depsChanged /\ Len(newAnomalies) > 0
       THEN getEMSTermSuggestions(newAnomalies, newJobIds)
       ELSE UNCHANGED <<runs, EMSSuggestions>> /\ MemoLayerList(FALSE)
    /\ UNCHANGED <<mapsPlugin, result, setupVars>>

\* the first render
Mount ==
    /\ ~callback.mounted
    /\ \E newAnomalies \in MapAnomalies, newJobIds \in BoundedSeq(JobIds, MaxJobs) :
          Rendered(newAnomalies, newJobIds, TRUE)

\* the parent renders the component again with other props (no further render
\* is followed once MaxRuns runs were started)
Render ==
    /\ callback.mounted
    /\ \E newAnomalies \in MapAnomalies, newJobIds \in BoundedSeq(JobIds, MaxJobs) :
          /\ <<newAnomalies, newJobIds>> # <<anomalies, jobIds>>
          /\ Len(runs) < MaxRuns
          /\ Rendered(newAnomalies, newJobIds, ~HookInputsEqual(newJobIds, callback.jobIds))

\* suggestEMSTermJoinConfig answers request i of run r; the last answer of a
\* run resolves Promise.all and getEMSTermSuggestions stores the suggestions
Reply ==
    \E r \in DOMAIN runs, reply \in EMSTermJoinConfigs \cup {Null} :
    \E i \in DOMAIN runs[r].replies :
       /\ runs[r].status = "pending"
       /\ runs[r].replies[i] = Pending
       /\ LET run == [runs[r] EXCEPT !.replies[i] = reply]
              last == \A k \in DOMAIN run.replies : run.replies[k] # Pending
          IN IF last
             THEN /\ runs' = [runs EXCEPT ![r] = [run EXCEPT !.status = "done"]]
                  /\ EMSSuggestions' = Array(FilterNotNull(ResolvedSuggestions(run)))
                  /\ UNCHANGED <<anomalies, jobIds>>
                  /\ MemoLayerList(TRUE)
             ELSE /\ runs' = [runs EXCEPT ![r] = run]
                  /\ UNCHANGED <<EMSSuggestions, anomalies, jobIds, layerList>>
       /\ UNCHANGED <<mapsPlugin, callback, result, setupVars>>

\* suggestEMSTermJoinConfig rejects request i of run r: Promise.all rejects,
\* getEMSTermSuggestions ends without storing anything
Reject ==
    \E r \in DOMAIN runs :
    \E i \in DOMAIN runs[r].replies :
       /\ runs[r].status = "pending"
       /\ runs[r].replies[i] = Pending
       /\ runs' = [runs EXCEPT ![r].status = "failed"]
       /\ UNCHANGED <<anomalies, jobIds, mapsPlugin, EMSSuggestions, callback, layerList,
                      result, setupVars>>

InitMap ==
    /\ anomalies = <<>>
    /\ jobIds = <<>>
    /\ mapsPlugin \in BOOLEAN
    /\ EMSSuggestions = Undefined
    /\ callback = [mounted |-> FALSE, anomalies |-> <<>>, jobIds |-> <<>>]
    /\ runs = <<>>
    /\ layerList = <<>>
    /\ result = NoResult
    /\ savedObjects = <<>>
    /\ encryptedSavedObjects = <<>>
    /\ pc = "start"

NextMap == Mount \/ Render \/ Reply \/ Reject

SpecMap == InitMap /\ [][NextMap]_vars

----------------------------------------------------------------------------
(* setupSavedObjects *)

ACTION_SAVED_OBJECT_TYPE == "action"
ALERT_SAVED_OBJECT_TYPE == "alert"
ACTION_TASK_PARAMS_SAVED_OBJECT_TYPE == "action_task_params"

\* types other plugins may have registered before this plugin is set up
OtherTypes == {"task", "dashboard", "visualization"}
MaxOther == 2

\* a registerType argument; a property the call leaves out is Undefined
SavedObjectsType(name, mappings, migrations, management) ==
    [name |-> name, hidden |-> TRUE, namespaceType |-> "single",
     mappings |-> mappings, migrations |-> migrations, management |-> management]

\* an encryptedSavedObjects.registerType argument; a set the call leaves out is empty
EncryptedType(type, attributesToEncrypt, attributesToExcludeFromAAD) ==
    [type |-> type, attributesToEncrypt |-> attributesToEncrypt,
     attributesToExcludeFromAAD |-> attributesToExcludeFromAAD]

ActionManagement ==
    [defaultSearchField |-> "name",
     importableAndExportable |-> TRUE,
     getTitle |-> Str("Connector: [${obj.attributes.name}]"),
     onExport |-> Str("transformConnectorsForExport"),
     onImport |-> Str("getImportWarnings")]

RegisterAction ==
    /\ pc = "start"
    /\ savedObjects' = Append(savedObjects,
           SavedObjectsType(ACTION_SAVED_OBJECT_TYPE, Str("mappings.action"),
                            Str("getMigrations"), ActionManagement))
    /\ pc' = "action_registered"
    /\ UNCHANGED <<encryptedSavedObjects, mapVars, result>>

EncryptAction ==
    /\ pc = "action_registered"
    /\ encryptedSavedObjects' = Append(encryptedSavedObjects,
           EncryptedType(ACTION_SAVED_OBJECT_TYPE, {"secrets"}, {"name"}))
    /\ pc' = "action_encrypted"
    /\ UNCHANGED <<savedObjects, mapVars, result>>

RegisterActionTaskParams ==
    /\ pc = "action_encrypted"
    /\ savedObjects' = Append(savedObjects,
           SavedObjectsType(ACTION_TASK_PARAMS_SAVED_OBJECT_TYPE,
                            Str("mappings.action_task_params"), Undefined, Undefined))
    /\ pc' = "params_registered"
    /\ UNCHANGED <<encryptedSavedObjects, mapVars, result>>

\* faulty variant: the second encrypted registration names the 'action' type again
EncryptActionTaskParams_AsAction ==
    /\ pc = "params_registered"
    /\ encryptedSavedObjects' = Append(encryptedSavedObjects,
           EncryptedType(ACTION_SAVED_OBJECT_TYPE, {"apiKey"}, {}))
    /\ pc' = "done"
    /\ UNCHANGED <<savedObjects, mapVars, result>>

EncryptActionTaskParams ==
    /\ pc = "params_registered"
    /\ encryptedSavedObjects' = Append(encryptedSavedObjects,
           EncryptedType(ACTION_TASK_PARAMS_SAVED_OBJECT_TYPE, {"apiKey"}, {}))
    /\ pc' = "done"
    /\ UNCHANGED <<savedObjects, mapVars, result>>

\* the attributes of a stored action (RawAction)
RawActionAttributes == {"actionTypeId", "name", "isMissingSecrets", "config", "secrets"}

\* the attributes the encryption service authenticates without encrypting
\* them: all but the encrypted and the excluded ones
AttributesInAAD(registration, attributes) ==
    attributes \ (registration.attributesToEncrypt \cup registration.attributesToExcludeFromAAD)

DistinctSeqs(S, n) ==
    {q \in BoundedSeq(S, n) : \A a, b \in DOMAIN q : a # b => q[a] # q[b]}

InitSetup ==
    /\ savedObjects \in
          {[k \in DOMAIN q |-> SavedObjectsType(q[k], Str("mappings"), Undefined, Undefined)] :
              q \in DistinctSeqs(OtherTypes, MaxOther)}
    /\ encryptedSavedObjects \in
          {[k \in DOMAIN q |-> EncryptedType(q[k], {"secret"}, {})] :
              q \in DistinctSeqs(OtherTypes, MaxOther)}
    /\ pc = "start"
    /\ anomalies = <<>>
    /\ jobIds = <<>>
    /\ mapsPlugin = TRUE
    /\ EMSSuggestions = Undefined
    /\ callback = [mounted |-> FALSE, anomalies |-> <<>>, jobIds |-> <<>>]
    /\ runs = <<>>
    /\ layerList = <<>>
    /\ result = NoResult

NextSetup ==
    RegisterAction \/ EncryptAction \/ RegisterActionTaskParams \/ EncryptActionTaskParams

SpecSetup == InitSetup /\ [][NextSetup]_vars

----------------------------------------------------------------------------
(* Claims about getAnomalyRows and getChoroplethAnomaliesLayer (SpecRows) *)

\* indices of the records of job jobId
OfJob(jobId) == {i \in 1..Len(anomalies) : anomalies[i].jobId = jobId}

\* indices of the records of job jobId with entity value v
OfJobAndValue(jobId, v) == {i \in OfJob(jobId) : anomalies[i].entityValue = v}

SetMax(S) == CHOOSE m \in S : \A x \in S : x <= m

\* C1: the rows of getAnomalyRows(anomalies, J) partition the records of job J
\* by entityValue: one row per distinct entityValue of those records, no row
\* for any other entityValue, and each count is the number of records of job J
\* with that entityValue.
C1_RowsPartitionByEntityValue ==
    result.op = "getAnomalyRows" =>
        LET rows == result.out
            values == {anomalies[i].entityValue : i \in OfJob(result.jobId)}
        IN /\ \A v \in values :
                 Cardinality({k \in DOMAIN rows : rows[k].entityValue = v}) = 1
           /\ \A k \in DOMAIN rows : rows[k].entityValue \in values
           /\ \A k \in DOMAIN rows :
                 rows[k].count =
                    Cardinality(OfJobAndValue(result.jobId, rows[k].entityValue))

\* C2: every row of getAnomalyRows(anomalies, J) has max_severity equal to the
\* floor of the largest severity among the records of job J with the row's
\* entityValue, whatever the order of the records.
C2_MaxSeverityIsFloorOfMax ==
    result.op = "getAnomalyRows" =>
        \A k \in DOMAIN result.out :
            LET mine == OfJobAndValue(result.jobId, result.out[k].entityValue)
            IN /\ mine # {}
               /\ result.out[k].max_severity =
                     Floor(SetMax({anomalies[i].severity : i \in mine}))

\* C5: the layer has exactly one join, on the configuration's field and the
\* term 'entityValue', whose rows are those of the configuration's own job;
\* its source is the configuration's layerId, its visible flag the argument,
\* and its style the fixed descriptor whose fill colour follows the joined
\* 'count' column.
C5_LayerDescriptor ==
    result.op = "getChoroplethAnomaliesLayer" =>
        LET layer == result.out
            config == result.config
        IN /\ Len(layer.joins) = 1
           /\ layer.joins[1].leftField = config.field
           /\ layer.joins[1].right.term = "entityValue"
           /\ layer.joins[1].right.rows = getAnomalyRows(anomalies, config.jobId)
           /\ \A k \in DOMAIN layer.joins[1].right.rows :
                 OfJobAndValue(config.jobId, layer.joins[1].right.rows[k].entityValue) # {}
           /\ layer.sourceDescriptor.id = config.layerId
           /\ layer.visible = result.visible
           /\ layer.style = StyleDescriptor
           /\ layer.style.properties.fillColor.options.field =
                 [name |-> "count", origin |-> "join"]

\* a hidden layer built for job j2 from a list that also holds records of j1
C5_Witness ==
    /\ result.op = "getChoroplethAnomaliesLayer"
    /\ result.config.jobId = "j2"
    /\ ~result.visible
    /\ result.out.joins[1].right.rows # <<>>
    /\ OfJob("j1") # {}

----------------------------------------------------------------------------
(* Claims about the sampling loop (SpecSample) *)

\* indices of the records of job jobId that qualify
Usable(jobId) == {i \in 1..Len(anomalies) : Qualifies(anomalies[i], jobId)}

\* the first occurrence of each usable entity value
FirstSeen(jobId) ==
    {i \in Usable(jobId) :
        \A j \in Usable(jobId) : j < i => anomalies[j].entityValue # anomalies[i].entityValue}

\* the first MAX_ENTITY_VALUES of them
Sampled(jobId) ==
    {i \in FirstSeen(jobId) :
        Cardinality({j \in FirstSeen(jobId) : j < i}) < MAX_ENTITY_VALUES}

SetMin(S) == CHOOSE m \in S : \A x \in S : m <= x

\* C3: the sample values are the first up-to-3 distinct entity values, in list
\* order, of the records of the job whose value and name are both defined and
\* not empty; the scan stops at the record that brings the third value; the
\* column name is that of the first such record, or empty.
C3_SampleIsFirstThreeDistinct ==
    result.op = "sample" =>
        LET J == result.jobId
            sample == result.out.sampleValues
        IN /\ Len(sample) <= 3
           /\ Len(sample) = Cardinality(Sampled(J))
           /\ \A i \in Sampled(J) :
                 sample[1 + Cardinality({j \in Sampled(J) : j < i})] =
                    anomalies[i].entityValue
           /\ result.loop.scanned =
                 IF Cardinality(FirstSeen(J)) >= 3 THEN SetMax(Sampled(J))
                 ELSE Len(anomalies)
           /\ result.out.sampleValuesColumnName =
                 IF Usable(J) = {} THEN Str("")
                 ELSE anomalies[SetMin(Usable(J))].entityName

\* three values gathered after an unusable record of the job was skipped, and
\* the scan stopped before the end of the list
C3_Witness ==
    /\ result.op = "sample"
    /\ Len(result.out.sampleValues) = 3
    /\ result.loop.scanned < Len(anomalies)
    /\ \E i \in 1..result.loop.scanned :
          anomalies[i].jobId = result.jobId /\ ~Qualifies(anomalies[i], result.jobId)

----------------------------------------------------------------------------
(* Claims about the AnomaliesMap component (SpecMap) *)

\* indices of the replies of a run that are not null
Answered(run) == {i \in DOMAIN run.replies : run.replies[i] # Null}

\* the list holds, in the order of the run's jobIds, one entry per non-null
\* reply, carrying the jobId of its request, and no null
HoldsAnswersOf(items, run) ==
    /\ Len(items) = Cardinality(Answered(run))
    /\ \A k \in DOMAIN items : items[k] # Null
    /\ \A i \in Answered(run) :
          items[1 + Cardinality({j \in Answered(run) : j < i})] =
             [jobId |-> run.jobIds[i],
              layerId |-> run.replies[i].layerId,
              field |-> run.replies[i].field]

\* the effect has called getEMSTermSuggestions for the memoised props
Invoked == callback.mounted /\ Len(callback.anomalies) > 0

\* the requests of the run started last, none if no run ever started one
LastRequests == IF runs = <<>> THEN <<>> ELSE runs[Len(runs)].requests

\* the call made one request per entry of the memoised jobIds, each with the
\* sample of its job
OneRequestPerJobId ==
    /\ Len(LastRequests) = Len(callback.jobIds)
    /\ \A i \in DOMAIN LastRequests :
          LastRequests[i] = SuggestRequest(callback.anomalies, callback.jobIds[i])

\* a run stores its answers in the step that completes it: the step that
\* brings its last reply, or the step that starts it when it has no request
StoresAnswers ==
    \A r \in DOMAIN runs' :
        (runs'[r].status = "done" /\ (r > Len(runs) \/ runs[r].status = "pending")) =>
            /\ EMSSuggestions'.type = "array"
            /\ HoldsAnswersOf(EMSSuggestions'.items, runs'[r])

\* C4 as stated: every run of getEMSTermSuggestions issues one request per
\* entry of jobIds, and once all replies are in the stored list holds, in the
\* order of jobIds, one entry per non-null reply with its jobId and no null.
C4_OneRequestPerJobAndAnswersStored ==
    [](Invoked => OneRequestPerJobId) /\ [][StoresAnswers]_vars

\* C4 amended: the same for a run made while the maps plugin is available; a
\* run made without the plugin issues no request and stores nothing.
C4_WithPluginOneRequestPerJobAndAnswersStored ==
    /\ []((Invoked /\ mapsPlugin) => OneRequestPerJobId)
    /\ []((Invoked /\ ~mapsPlugin) => (runs = <<>> /\ EMSSuggestions = Undefined))
    /\ [][StoresAnswers]_vars

\* a run for two jobs is done, the first job answered with null, the second
\* with a configuration, and the stored list is that one entry
C4_Witness ==
    \E r \in DOMAIN runs :
        /\ runs[r].status = "done"
        /\ Len(runs[r].jobIds) = 2
        /\ runs[r].replies[1] = Null
        /\ runs[r].replies[2] # Null
        /\ EMSSuggestions = Array(<<WithJobId(runs[r].jobIds[2], runs[r].replies[2])>>)

StoredItems == IF EMSSuggestions.type = "array" THEN EMSSuggestions.items ELSE <<>>

NotNullAt == {i \in DOMAIN StoredItems : StoredItems[i] # Null}

\* C8: the layer list holds one layer per non-null stored suggestion, in their
\* order, and only the first layer is visible.
C8_OneLayerPerSuggestionFirstVisible ==
    /\ Len(layerList) = Cardinality(NotNullAt)
    /\ \A i \in NotNullAt :
          LET k == 1 + Cardinality({j \in NotNullAt : j < i})
          IN /\ layerList[k].sourceDescriptor.id = StoredItems[i].layerId
             /\ layerList[k].joins[1].leftField = StoredItems[i].field
             /\ layerList[k].label = LayerLabel(StoredItems[i].jobId)
    /\ \A k \in DOMAIN layerList : layerList[k].visible <=> k = 1

\* two layers are shown, the first visible and the second hidden
C8_Witness ==
    /\ Len(layerList) = 2
    /\ layerList[1].visible
    /\ ~layerList[2].visible
    /\ layerList[1].sourceDescriptor.id # layerList[2].sourceDescriptor.id

\* C9: once every run has completed, the stored suggestions are those of the
\* run started last, the one for the latest jobIds.
C9_LatestRunWins ==
    (Len(runs) >= 2 /\ \A r \in DOMAIN runs : runs[r].status = "done") =>
        /\ EMSSuggestions.type = "array"
        /\ HoldsAnswersOf(EMSSuggestions.items, runs[Len(runs)])

----------------------------------------------------------------------------
(* Claims about setupSavedObjects (SpecSetup) *)

OwnTypes == {ACTION_SAVED_OBJECT_TYPE, ACTION_TASK_PARAMS_SAVED_OBJECT_TYPE}

\* the names registered by setupSavedObjects, in call order
NamesOf(registry, field) ==
    LET own == {k \in DOMAIN registry : registry[k][field] \notin OtherTypes}
    IN [n \in 1..Cardinality(own) |->
           registry[CHOOSE k \in own : Cardinality({j \in own : j < k}) = n - 1][field]]

RegisteredAs(name) ==
    savedObjects[CHOOSE k \in DOMAIN savedObjects : savedObjects[k].name = name]

EncryptedAs(name) ==
    encryptedSavedObjects[CHOOSE k \in DOMAIN encryptedSavedObjects :
                             encryptedSavedObjects[k].type = name]

RegisteredTwiceOver ==
    /\ NamesOf(savedObjects, "name") =
          <<ACTION_SAVED_OBJECT_TYPE, ACTION_TASK_PARAMS_SAVED_OBJECT_TYPE>>
    /\ NamesOf(encryptedSavedObjects, "type") =
          <<ACTION_SAVED_OBJECT_TYPE, ACTION_TASK_PARAMS_SAVED_OBJECT_TYPE>>

HasImportExportHooks(type) ==
    /\ type.management # Undefined
    /\ type.management.onExport # Undefined
    /\ type.management.onImport # Undefined

\* C6 as stated: after setupSavedObjects exactly 'action' and
\* 'action_task_params' are registered, once with each service, and each of the
\* two has mappings, migrations, encrypted attributes and import/export hooks.
C6_BothTypesFullyDeclared ==
    pc = "done" =>
        /\ RegisteredTwiceOver
        /\ \A name \in OwnTypes :
              /\ RegisteredAs(name).mappings # Undefined
              /\ RegisteredAs(name).migrations # Undefined
              /\ HasImportExportHooks(RegisteredAs(name))
              /\ EncryptedAs(name).attributesToEncrypt # {}

\* C6 amended: both types are registered once with each service, each with
\* mappings and encrypted attributes; 'action' alone has migrations and
\* import/export hooks, 'action_task_params' has neither.
C6_BothTypesRegisteredActionFullyDeclared ==
    pc = "done" =>
        /\ RegisteredTwiceOver
        /\ \A name \in OwnTypes :
              /\ RegisteredAs(name).mappings # Undefined
              /\ EncryptedAs(name).attributesToEncrypt # {}
        /\ RegisteredAs(ACTION_SAVED_OBJECT_TYPE).migrations # Undefined
        /\ HasImportExportHooks(RegisteredAs(ACTION_SAVED_OBJECT_TYPE))
        /\ RegisteredAs(ACTION_TASK_PARAMS_SAVED_OBJECT_TYPE).migrations = Undefined
        /\ RegisteredAs(ACTION_TASK_PARAMS_SAVED_OBJECT_TYPE).management = Undefined

\* setupSavedObjects has returned on a platform where other plugins had
\* registered types before it
C6_Witness ==
    /\ pc = "done"
    /\ Len(savedObjects) = 4
    /\ Len(encryptedSavedObjects) = 3

\* C7: for 'action', 'secrets' is the only encrypted attribute, 'config' is in
\* the AAD and every other attribute is left out of it.
C7_OnlyConfigInAAD ==
    pc = "done" =>
        /\ EncryptedAs(ACTION_SAVED_OBJECT_TYPE).attributesToEncrypt = {"secrets"}
        /\ AttributesInAAD(EncryptedAs(ACTION_SAVED_OBJECT_TYPE), RawActionAttributes)
              = {"config"}

====
